---- MODULE Spec2Model ----
(***************************************************************************)
(* A model of argocd-mcp: the Request Executor (api/client.py), the Domain *)
(* Mapper (models/applications.py) and the tool wrappers (tools/*.py).     *)
(*                                                                         *)
(* Python values are tagged records; a text is a sequence of symbols, each *)
(* symbol one character or one literal fragment of the source.             *)
(***************************************************************************)
EXTENDS Integers, Sequences, FiniteSets, TLC

VARIABLES
    DEFAULT_TOKEN,      \* client.py: process-wide default token (None or str)
    DEFAULT_API_URL,    \* client.py: process-wide default base URL
    VERIFY_SSL,         \* client.py: process-wide TLS verification flag
    params_default,     \* the shared default dict of parameter `params`
    data_default,       \* the shared default dict of parameter `data`
    caller,             \* who runs: "none", "direct" or a tool's name
    phase,              \* "idle", "await" (network call outstanding), "done"
    args,               \* update_application's overrides, kept across its GET
    req,                \* the arguments of the latest make_api_request call
    calls,              \* outbound calls issued by the latest make_api_request
    sent,               \* the transport's record of this invocation's calls
    outcome,            \* what the awaited call produced
    result,             \* the (ok, payload) pair make_api_request returned
    toolResult,         \* what the tool returned, or that it raised
    fetched,            \* update_application: the (success, app_data) its GET returned
    mapOp,              \* Domain Mapper: the conversion applied
    mapIn,              \* Domain Mapper: its input
    mapOut,             \* Domain Mapper: its output
    store,              \* the Application the upstream holds under the name
    updaters,           \* each concurrent update_application call: its position and locals
    external            \* writes made to the Application by other clients so far

execVars == <<caller, phase, args, req, calls, sent, outcome, result, toolResult, fetched>>
defaultVars == <<DEFAULT_TOKEN, DEFAULT_API_URL, VERIFY_SSL, params_default, data_default>>
mapVars == <<mapOp, mapIn, mapOut>>
raceVars == <<store, updaters, external>>
vars == <<defaultVars, execVars, mapVars, raceVars>>

----------------------------------------------------------------------------
(* Bounds of the model *)

MaxTokenLen == 2
MaxMsgLen == 2
MaxOverrides == 2
MaxSyncOptions == 1
MaxExternalWrites == 1

TokenChars == {"s", "k"}

----------------------------------------------------------------------------
(* Python / JSON values *)

JNull == [t |-> "null"]
JBool(b) == [t |-> "bool", b |-> b]
JInt(n) == [t |-> "int", n |-> n]
JStr(s) == [t |-> "str", s |-> s]
JList(l) == [t |-> "list", l |-> l]
JObj(o) == [t |-> "obj", o |-> o]
EmptyMap == [k \in {} |-> JNull]
EmptyObj == JObj(EmptyMap)

IsNone(j) == j.t = "null"
IsStr(j) == j.t = "str"
IsObj(j) == j.t = "obj"
IsList(j) == j.t = "list"

\* Python truthiness: `if x:` / `not x` / bool(x)
Truthy(j) ==
    CASE j.t = "null" -> FALSE
      [] j.t = "bool" -> j.b
      [] j.t = "int" -> j.n # 0
      [] j.t = "str" -> Len(j.s) > 0
      [] j.t = "list" -> Len(j.l) > 0
      [] j.t = "obj" -> DOMAIN j.o # {}
      [] OTHER -> TRUE

\* dict operations
Has(j, k) == IsObj(j) /\ k \in DOMAIN j.o
MapPut(o, k, v) == [x \in (DOMAIN o) \cup {k} |-> IF x = k THEN v ELSE o[x]]
MapDel(o, k) == [x \in (DOMAIN o) \ {k} |-> o[x]]
Put(j, k, v) == JObj(MapPut(j.o, k, v))
Del(j, k) == JObj(MapDel(j.o, k))
Get(j, k, default) == IF k \in DOMAIN j.o THEN j.o[k] ELSE default

\* text operations
Text(lit) == IF lit = "" THEN <<>> ELSE <<lit>>
Contains(s, sub) ==
    \E i \in 0..(Len(s) - Len(sub)) : SubSeq(s, i + 1, i + Len(sub)) = sub
Take(s, n) == SubSeq(s, 1, IF Len(s) < n THEN Len(s) ELSE n)

\* str.replace(old, new) for a non-empty old: leftmost, non-overlapping
RECURSIVE Replace(_, _, _)
Replace(s, old, new) ==
    IF Len(s) < Len(old) THEN s
    ELSE IF SubSeq(s, 1, Len(old)) = old
         THEN new \o Replace(SubSeq(s, Len(old) + 1, Len(s)), old, new)
         ELSE <<Head(s)>> \o Replace(Tail(s), old, new)

\* an f-string's rendering of a value: a str as itself, others by their repr
Format(j) == IF IsStr(j) THEN j.s ELSE <<"repr(", j.t, ")">>

SeqsUpTo(S, n) == UNION {[1..m -> S] : m \in 0..n}

----------------------------------------------------------------------------
(* Request Executor: api/client.py, make_api_request *)

ARGOCD_API_URL_DEFAULT == "http://localhost:8080/api/v1"
DefaultTimeout == 30
NoContent == 204
ErrorTextLimit == 200
SuccessCodes == {200, 201, 202, NoContent}
SupportedMethods == {"GET", "POST", "PUT", "PATCH", "DELETE"}
BodyMethods == {"POST", "PUT", "PATCH"}
REDACTED == Text("[REDACTED]")

Ret(ok, payload) == [kind |-> "return", ok |-> ok, payload |-> payload]
Raise(exc, msg) == [kind |-> "raise", exc |-> exc, msg |-> msg]
ErrorPayload(msg) == JObj([error |-> JStr(msg)])

\* if not token: token = DEFAULT_TOKEN
ResolveToken(token) == IF ~Truthy(token) THEN DEFAULT_TOKEN ELSE token

\* a variant that tests `token is None`, letting the empty string through
TokenMissing_IsNone(token) == IsNone(ResolveToken(token))

\* if not token: return (False, {"error": "Token is required. ..."})
TokenMissing(token) == ~Truthy(ResolveToken(token))
TokenRequired ==
    Ret(FALSE, ErrorPayload(Text(
        "Token is required. Please set the ARGOCD_TOKEN environment variable.")))

\* if not api_url: api_url = DEFAULT_API_URL
ResolveApiUrl(api_url) == IF ~Truthy(api_url) THEN JStr(Text(DEFAULT_API_URL)) ELSE api_url

\* ssl_verify = VERIFY_SSL if verify_ssl is None else verify_ssl
ResolveVerify(verify_ssl) == IF IsNone(verify_ssl) THEN VERIFY_SSL ELSE verify_ssl.b

\* a variant whose dispatch sends any method
MethodSupported_Any(method) == TRUE

\* the method dispatch: which methods reach a client call
MethodSupported(method) == method \in SupportedMethods
UnsupportedMethod(method) == Ret(FALSE, ErrorPayload(<<"Unsupported method: ", method>>))

\* the one client call the dispatch makes: url, headers, params and,
\* for POST/PUT/PATCH, the JSON body
OutboundCall(r) ==
    [method |-> r.method,
     url |-> ResolveApiUrl(r.api_url).s \o <<"/">> \o r.path,
     authorization |-> <<"Bearer ">> \o ResolveToken(r.token).s,
     content_type |-> "application/json",
     params |-> r.params,
     json |-> IF r.method \in BodyMethods THEN r.data ELSE JNull,
     timeout |-> r.timeout,
     verify |-> ResolveVerify(r.verify_ssl)]

\* "error" in error_data: a dict's keys, a list's elements, a str's substrings;
\* any other value raises TypeError
InRaises(j) == j.t \in {"null", "bool", "int"}
InValue(lit, j) ==
    CASE j.t = "obj" -> lit \in DOMAIN j.o
      [] j.t = "list" -> \E i \in 1..Len(j.l) : j.l[i] = JStr(Text(lit))
      [] j.t = "str" -> Contains(j.s, Text(lit))
      [] OTHER -> FALSE

\* the non-2xx branch
ErrorResponse(status, body) ==
    LET error_message == <<"API request failed: ", ToString(status)>> IN
    IF body.parses
    THEN LET error_data == body.json IN
         IF InRaises(error_data)
         THEN Raise("Exception",
                    <<"argument of type '", error_data.t, "' is not iterable">>)
         ELSE IF InValue("error", error_data)
              THEN IF IsObj(error_data)
                   THEN Ret(FALSE, JObj([error |->
                                JStr(error_message \o <<" - ">> \o Format(error_data.o["error"])),
                             details |-> error_data]))
                   ELSE Raise("Exception",
                              <<error_data.t, " indices must be integers">>)
              ELSE Ret(FALSE, JObj([error |-> JStr(error_message), details |-> error_data]))
    ELSE Ret(FALSE, ErrorPayload(error_message \o <<" - ">> \o Take(body.text, ErrorTextLimit)))

\* a variant that treats an unparseable 2xx body as a failure
SuccessResponse_Strict(status, body) ==
    IF status = NoContent
    THEN Ret(TRUE, JObj([status |-> JStr(Text("success"))]))
    ELSE IF body.parses
         THEN Ret(TRUE, body.json)
         ELSE Ret(FALSE, ErrorPayload(<<"Invalid JSON: ">> \o Take(body.text, ErrorTextLimit)))

\* the 2xx branch
SuccessResponse(status, body) ==
    IF status = NoContent
    THEN Ret(TRUE, JObj([status |-> JStr(Text("success"))]))
    ELSE IF body.parses
         THEN Ret(TRUE, body.json)
         ELSE Ret(TRUE, JObj([status |-> JStr(Text("success")),
                              raw_response |-> JStr(body.text)]))

HandleResponse(status, body) ==
    IF status \in SuccessCodes
    THEN SuccessResponse(status, body)
    ELSE ErrorResponse(status, body)

\* except httpx.TimeoutException
OnTimeout(timeout) ==
    Ret(FALSE, ErrorPayload(<<"Request timed out after ", ToString(timeout), " seconds">>))

\* except httpx.RequestError as e
OnRequestError(token, msg) == Ret(FALSE, ErrorPayload(<<"Request error: ">> \o msg))

\* except Exception as e: the token is replaced in the message
OnException(token, msg) ==
    LET error_message == IF Truthy(token) /\ Contains(msg, token.s)
                         THEN Replace(msg, token.s, REDACTED)
                         ELSE msg
    IN Ret(FALSE, ErrorPayload(<<"Request error: ">> \o error_message))

ExceptClauses(token, timeout, raised) ==
    CASE raised.exc = "TimeoutException" -> OnTimeout(timeout)
      [] raised.exc = "RequestError" -> OnRequestError(token, raised.msg)
      [] OTHER -> OnException(token, raised.msg)

\* what the awaited client call gives the try block: a response or a fault
TryBody(o) ==
    IF o.kind = "response" THEN HandleResponse(o.status, o.body) ELSE Raise(o.kind, o.msg)

\* make_api_request from the await on: its (ok, payload)
Finish(r, o) ==
    LET t == TryBody(o) IN
    IF t.kind = "return" THEN t ELSE ExceptClauses(ResolveToken(r.token), r.timeout, t)

\* a variant that sends the request once more after a timeout
Retries_OnTimeout(r, o) == IF o.kind = "TimeoutException" THEN <<OutboundCall(r)>> ELSE <<>>

\* the client calls the except clauses and the status branches make after the
\* awaited call completed: each returns, none calls the client again
Retries(r, o) == <<>>

\* make_api_request up to the await: an immediate return, or the client call
Begin(r) ==
    IF TokenMissing(r.token) THEN [immediate |-> TRUE, ret |-> TokenRequired]
    ELSE IF ~MethodSupported(r.method)
         THEN [immediate |-> TRUE, ret |-> UnsupportedMethod(r.method)]
         ELSE [immediate |-> FALSE, call |-> OutboundCall(r)]

\* a call of make_api_request with the defaults of its signature
Request(path, method, params, data) ==
    [path |-> path, method |-> method, token |-> JNull, api_url |-> JNull,
     params |-> params, data |-> data, timeout |-> DefaultTimeout, verify_ssl |-> JNull]

----------------------------------------------------------------------------
(* Domain Mapper: models/applications.py *)

Raised == [t |-> "raised"]
Str(lit) == JStr(Text(lit))

ApplicationSource(repo_url, path, target_revision, helm, kustomize, directory) ==
    [repo_url |-> repo_url, path |-> path, target_revision |-> target_revision,
     helm |-> helm, kustomize |-> kustomize, directory |-> directory]

ApplicationDestination(server, namespace, name) ==
    [server |-> server, namespace |-> namespace, name |-> name]

ApplicationSyncPolicy(automated, prune, self_heal, allow_empty, sync_options, retry) ==
    [t |-> "policy", automated |-> automated, prune |-> prune, self_heal |-> self_heal,
     allow_empty |-> allow_empty, sync_options |-> sync_options, retry |-> retry]

ApplicationStatus(sync_status, health_status, resources, conditions, operation_state) ==
    [t |-> "status", sync_status |-> sync_status, health_status |-> health_status,
     resources |-> resources, conditions |-> conditions,
     operation_state |-> operation_state]

Application(name, project, source, destination, sync_policy, namespace, status) ==
    [name |-> name, project |-> project, source |-> source,
     destination |-> destination, sync_policy |-> sync_policy,
     namespace |-> namespace, status |-> status]

\* destination["name"] is set `if app.destination.name:`
EmitDestinationName(name) == Truthy(name)

\* a variant that emits the `automated` block for every SyncPolicy
EmitAutomated_Always(policy) == TRUE

\* sync_policy["automated"] is set `if app.sync_policy.automated:`
EmitAutomated(policy) == Truthy(policy.automated)

\* a variant that copies the status of the Application into the wire object
WireTop_WithStatus(app, metadata, spec) ==
    IF IsNone(app.status)
    THEN [metadata |-> JObj(metadata), spec |-> JObj(spec)]
    ELSE [metadata |-> JObj(metadata), spec |-> JObj(spec),
          status |-> JObj([sync |-> JObj([status |-> app.status.sync_status]),
                           health |-> JObj([status |-> app.status.health_status])])]

\* the keys toWire puts at the top level of its result
WireTop(app, metadata, spec) == [metadata |-> JObj(metadata), spec |-> JObj(spec)]

application_to_api_format(app) ==
    LET s0 == [repoURL |-> app.source.repo_url,
               path |-> app.source.path,
               targetRevision |-> app.source.target_revision]
        s1 == IF ~IsNone(app.source.helm)
              THEN MapPut(s0, "helm", app.source.helm) ELSE s0
        s2 == IF ~IsNone(app.source.kustomize)
              THEN MapPut(s1, "kustomize", app.source.kustomize) ELSE s1
        source == IF ~IsNone(app.source.directory)
                  THEN MapPut(s2, "directory", app.source.directory) ELSE s2
        d0 == [server |-> app.destination.server,
               namespace |-> app.destination.namespace]
        destination == IF EmitDestinationName(app.destination.name)
                       THEN MapPut(d0, "name", app.destination.name) ELSE d0
        spec0 == [project |-> app.project, source |-> JObj(source),
                  destination |-> JObj(destination)]
        p == app.sync_policy
        p1 == IF EmitAutomated(p)
              THEN MapPut(EmptyMap, "automated",
                          JObj([prune |-> p.prune, selfHeal |-> p.self_heal,
                                allowEmpty |-> p.allow_empty]))
              ELSE EmptyMap
        p2 == IF Truthy(p.sync_options)
              THEN MapPut(p1, "syncOptions", p.sync_options) ELSE p1
        sync_policy == IF Truthy(p.retry) THEN MapPut(p2, "retry", p.retry) ELSE p2
        spec == IF ~IsNone(p)
                THEN MapPut(spec0, "syncPolicy", JObj(sync_policy)) ELSE spec0
    IN JObj(WireTop(app, [name |-> app.name, namespace |-> app.namespace], spec))

\* bool(automated) of the wire value of syncPolicy.automated
AutomatedFlag(automated) == JBool(Truthy(automated))

\* x.get(k, default) needs x to be a dict
CanGet(j) == IsObj(j)

api_format_to_application(data) ==
    IF ~CanGet(data) THEN Raised ELSE
    LET metadata == Get(data, "metadata", EmptyObj)
        spec == Get(data, "spec", EmptyObj)
        status_data == Get(data, "status", EmptyObj)
    IN IF ~CanGet(spec) \/ ~CanGet(metadata) THEN Raised ELSE
    LET source_data == Get(spec, "source", EmptyObj)
        dest_data == Get(spec, "destination", EmptyObj)
    IN IF ~CanGet(source_data) \/ ~CanGet(dest_data) THEN Raised ELSE
    LET source == ApplicationSource(
                      Get(source_data, "repoURL", Str("")),
                      Get(source_data, "path", Str("")),
                      Get(source_data, "targetRevision", Str("HEAD")),
                      Get(source_data, "helm", JNull),
                      Get(source_data, "kustomize", JNull),
                      Get(source_data, "directory", JNull))
        destination == ApplicationDestination(
                      Get(dest_data, "server", Str("")),
                      Get(dest_data, "namespace", Str("")),
                      Get(dest_data, "name", JNull))
        hasPolicy == "syncPolicy" \in DOMAIN spec.o
        sync_policy_data == IF hasPolicy THEN spec.o["syncPolicy"] ELSE EmptyObj
    IN IF ~CanGet(sync_policy_data) THEN Raised ELSE
    LET automated == Get(sync_policy_data, "automated", EmptyObj)
    IN IF hasPolicy /\ ~CanGet(automated) THEN Raised ELSE
    LET sync_policy ==
            IF hasPolicy
            THEN ApplicationSyncPolicy(
                     AutomatedFlag(automated),
                     Get(automated, "prune", JBool(FALSE)),
                     Get(automated, "selfHeal", JBool(FALSE)),
                     Get(automated, "allowEmpty", JBool(FALSE)),
                     Get(sync_policy_data, "syncOptions", JNull),
                     Get(sync_policy_data, "retry", JNull))
            ELSE JNull
        hasStatus == Truthy(status_data)
    IN IF hasStatus /\ ~CanGet(status_data) THEN Raised ELSE
    LET sync == IF hasStatus THEN Get(status_data, "sync", EmptyObj) ELSE EmptyObj
        health == IF hasStatus THEN Get(status_data, "health", EmptyObj) ELSE EmptyObj
    IN IF ~CanGet(sync) \/ ~CanGet(health) THEN Raised ELSE
    LET status ==
            IF hasStatus
            THEN ApplicationStatus(
                     Get(sync, "status", Str("Unknown")),
                     Get(health, "status", Str("Unknown")),
                     Get(status_data, "resources", JList(<<>>)),
                     Get(status_data, "conditions", JList(<<>>)),
                     Get(status_data, "operationState", JNull))
            ELSE JNull
    IN Application(Get(metadata, "name", Str("")),
                   Get(spec, "project", Str("default")),
                   source, destination, sync_policy,
                   Get(metadata, "namespace", Str("argocd")),
                   status)

----------------------------------------------------------------------------
(* Tools: tools/applications.py, settings.py, session.py, version.py *)

Return(value) == [kind |-> "return", value |-> value]
NoToolResult == [kind |-> "none"]
ToolRaised == [kind |-> "raise"]

\* params[key] = value `if value:`
ParamIf(params, key, value) == IF Truthy(value) THEN MapPut(params, key, value) ELSE params

\* a variant that forwards every non-empty refresh value
RefreshAccepted_AnyText(refresh) == Truthy(refresh)

\* params["refresh"] = refresh `if refresh in ["hard", "normal"]:`
RefreshAccepted(refresh) == refresh \in {Str("hard"), Str("normal")}
RefreshParam(params, refresh) ==
    IF RefreshAccepted(refresh) THEN MapPut(params, "refresh", refresh) ELSE params

AppPath(name) == <<"applications/">> \o name.s

list_applications_request(a) ==
    Request(Text("applications"), "GET",
            JObj(RefreshParam(
                 ParamIf(ParamIf(ParamIf(ParamIf(EmptyMap, "project", a.project),
                                         "name", a.name),
                                 "repo", a.repo),
                         "appNamespace", a.namespace),
                 a.refresh)),
            data_default)

get_application_details_request(a) ==
    Request(AppPath(a.name), "GET",
            JObj(ParamIf(RefreshParam(ParamIf(EmptyMap, "project", a.project), a.refresh),
                         "appNamespace", a.namespace)),
            data_default)

create_application_app(a) ==
    Application(a.name, a.project,
                ApplicationSource(a.repo_url, a.path, a.revision, JNull, JNull, JNull),
                ApplicationDestination(a.dest_server, a.dest_namespace, JNull),
                IF a.automated_sync
                THEN ApplicationSyncPolicy(JBool(TRUE), JBool(a.prune), JBool(a.self_heal),
                                           JBool(FALSE), JList(<<>>), JNull)
                ELSE JNull,
                IF Truthy(a.namespace) THEN a.namespace ELSE Str("argocd"),
                JNull)

FlagParam(params, key, flag) == IF flag THEN MapPut(params, key, Str("true")) ELSE params

create_application_request(a) ==
    Request(Text("applications"), "POST",
            JObj(FlagParam(FlagParam(EmptyMap, "validate", a.validate), "upsert", a.upsert)),
            application_to_api_format(create_application_app(a)))

delete_application_request(a) ==
    Request(AppPath(a.name), "DELETE",
            JObj(ParamIf(
                 IF Truthy(a.propagation_policy)
                    /\ a.propagation_policy \in {Str("foreground"), Str("background"), Str("orphan")}
                 THEN MapPut([cascade |-> Str(IF a.cascade THEN "true" ELSE "false")],
                             "propagationPolicy", a.propagation_policy)
                 ELSE [cascade |-> Str(IF a.cascade THEN "true" ELSE "false")],
                 "appNamespace", a.namespace)),
            data_default)

sync_application_request(a) ==
    LET d0 == [name |-> a.name, prune |-> JBool(a.prune), dryRun |-> JBool(a.dry_run)]
        d1 == ParamIf(d0, "revision", a.revision)
        d2 == IF Truthy(a.strategy) /\ a.strategy \in {Str("apply"), Str("hook")}
              THEN MapPut(d1, "strategy",
                          IF a.strategy = Str("hook")
                          THEN JObj([hook |-> EmptyObj]) ELSE JObj([apply |-> EmptyObj]))
              ELSE d1
        d3 == ParamIf(d2, "resources", a.resources)
    IN Request(AppPath(a.name) \o <<"/sync">>, "POST",
               JObj(ParamIf(EmptyMap, "appNamespace", a.namespace)), JObj(d3))

\* the tools that take no argument, and the path each requests
PlainPath(tool) ==
    CASE tool = "get_user_info" -> Text("session/userinfo")
      [] tool = "get_settings" -> Text("settings")
      [] tool = "get_plugins" -> Text("settings/plugins")
      [] tool = "get_version" -> Text("../version")
plain_request(tool) == Request(PlainPath(tool), "GET", params_default, data_default)

\* update_application, lines 213-219: the GET of the current application
update_application_get(a) == Request(AppPath(a.name), "GET", params_default, data_default)

\* x["spec"][...] = v and x["spec"].get(...) need x["spec"] to exist and be a dict
HasSpec(app) == Has(app, "spec") /\ IsObj(app.o["spec"])

\* a variant that writes the argument whether or not it was supplied
PutIf_Always(j, key, value) == Put(j, key, value)

\* x[key] = value `if value:`
PutIf(j, key, value) == IF Truthy(value) THEN Put(j, key, value) ELSE j
PutIfGiven(j, key, value) == IF ~IsNone(value) THEN Put(j, key, value) ELSE j

\* lines 222-223
PatchProject(app, a) ==
    IF ~Truthy(a.project) THEN app
    ELSE IF ~HasSpec(app) THEN Raised
    ELSE Put(app, "spec", Put(app.o["spec"], "project", a.project))

\* lines 225-234
PatchSource(app, a) ==
    IF app = Raised THEN Raised
    ELSE IF ~(Truthy(a.repo_url) \/ Truthy(a.path) \/ Truthy(a.revision)) THEN app
    ELSE IF ~HasSpec(app) THEN Raised
    ELSE LET source == Get(app.o["spec"], "source", EmptyObj) IN
         IF ~IsObj(source) THEN Raised
         ELSE Put(app, "spec",
                  Put(app.o["spec"], "source",
                      PutIf(PutIf(PutIf(source, "repoURL", a.repo_url), "path", a.path),
                            "targetRevision", a.revision)))

\* lines 236-243
PatchDestination(app, a) ==
    IF app = Raised THEN Raised
    ELSE IF ~(Truthy(a.dest_server) \/ Truthy(a.dest_namespace)) THEN app
    ELSE IF ~HasSpec(app) THEN Raised
    ELSE LET destination == Get(app.o["spec"], "destination", EmptyObj) IN
         IF ~IsObj(destination) THEN Raised
         ELSE Put(app, "spec",
                  Put(app.o["spec"], "destination",
                      PutIf(PutIf(destination, "server", a.dest_server),
                            "namespace", a.dest_namespace)))

\* lines 246-268
PatchSyncPolicy(app, a) ==
    IF app = Raised THEN Raised
    ELSE IF IsNone(a.automated_sync) /\ IsNone(a.prune) /\ IsNone(a.self_heal) THEN app
    ELSE IF ~HasSpec(app) THEN Raised
    ELSE LET sync_policy == Get(app.o["spec"], "syncPolicy", EmptyObj) IN
         IF InRaises(sync_policy) THEN Raised
         ELSE LET present == InValue("automated", sync_policy) IN
              IF present /\ ~IsObj(sync_policy) THEN Raised
              ELSE LET automated == IF present THEN sync_policy.o["automated"] ELSE JNull
                       create == a.automated_sync = JBool(TRUE) /\ IsNone(automated)
                       remove == ~create /\ a.automated_sync = JBool(FALSE)
                                         /\ ~IsNone(automated)
                       auto1 == IF create THEN EmptyObj ELSE automated
                       writes == ~IsNone(auto1)
                                 /\ (~IsNone(a.prune) \/ ~IsNone(a.self_heal))
                   IN IF (create /\ ~IsObj(sync_policy)) \/ (writes /\ ~IsObj(auto1))
                      THEN Raised
                      ELSE LET auto2 == IF writes
                                        THEN PutIfGiven(PutIfGiven(auto1, "prune", a.prune),
                                                        "selfHeal", a.self_heal)
                                        ELSE auto1
                               sp == IF remove THEN Del(sync_policy, "automated")
                                     ELSE IF ~IsNone(auto1)
                                          THEN Put(sync_policy, "automated", auto2)
                                          ELSE sync_policy
                           IN Put(app, "spec", Put(app.o["spec"], "syncPolicy", sp))

\* lines 221-268: the body of the PUT, or Raised
update_application_patch(app_data, a) ==
    PatchSyncPolicy(PatchDestination(PatchSource(PatchProject(app_data, a), a), a), a)

\* lines 270-278
update_application_put(app_data, a) ==
    Request(AppPath(a.name), "PUT",
            JObj(FlagParam(EmptyMap, "validate", a.validate)), app_data)

\* {"error": data.get("error", <default>)}
ErrorMapping(data) == JObj([error |-> Get(data, "error", Str("Failed"))])

\* what a tool does with the (success, data) of its request
WrapResult(tool, a, r) ==
    IF tool = "delete_application"
    THEN IF r.ok
         THEN Return(JObj([status |-> Str("success"),
                           message |-> JStr(<<"Application '">> \o a.name.s
                                            \o <<"' deleted successfully">>),
                           details |-> r.payload]))
         ELSE Return(JObj([error |-> Get(r.payload, "error", Str("Failed")),
                           details |-> r.payload]))
    ELSE IF r.ok THEN Return(r.payload) ELSE Return(ErrorMapping(r.payload))

\* a variant that never takes the GET of update_application to have failed
GetFailed_Never(r) == FALSE

\* update_application, `if not success:` after its GET
GetFailed(r) == ~r.ok

\* a tool's continuation after make_api_request returned r: its result, or
\* (update_application after its GET) the next request
AfterRequest(tool, a, method, r) ==
    IF tool = "direct" THEN [done |-> TRUE, toolResult |-> NoToolResult]
    ELSE IF tool = "update_application" /\ method = "GET"
    THEN IF GetFailed(r) THEN [done |-> TRUE, toolResult |-> Return(ErrorMapping(r.payload))]
         ELSE LET body == update_application_patch(r.payload, a) IN
              IF body = Raised THEN [done |-> TRUE, toolResult |-> ToolRaised]
              ELSE [done |-> FALSE, next |-> update_application_put(body, a)]
    ELSE [done |-> TRUE, toolResult |-> WrapResult(tool, a, r)]

----------------------------------------------------------------------------
(* Inputs: the bounded sets the arguments and the upstream's answers come from *)

Tokens == {JStr(s) : s \in SeqsUpTo(TokenChars, MaxTokenLen) \ {<<>>}}
OptionalTokens == {JNull, JStr(<<>>)} \cup Tokens
Messages == SeqsUpTo(TokenChars \cup {"x"}, MaxMsgLen)
Methods == SupportedMethods \cup {"TRACE"}
Statuses == SuccessCodes \cup {404, 500}
LongText == [i \in 1..(ErrorTextLimit + 1) |-> "x"]

Unparseable(text) == [parses |-> FALSE, text |-> text]
Parsed(json) == [parses |-> TRUE, json |-> json]

RawBodies == {Unparseable(<<>>), Unparseable(Text("<html>")), Unparseable(LongText)}
JsonBodies ==
    {Parsed(j) : j \in {JNull, JInt(7), JStr(Text("down")), JStr(Text("error")),
                        JList(<<>>), JList(<<Str("error")>>),
                        EmptyObj, JObj([message |-> Str("denied")]),
                        JObj([error |-> Str("app not found")])}}

\* wire objects the upstream may hold for an application
WireSource == JObj([repoURL |-> Str("repo"), path |-> Str("."), targetRevision |-> Str("HEAD")])
WireDestination == JObj([server |-> Str("https://k8s"), namespace |-> Str("prod")])
WireSpec == [project |-> Str("default"), source |-> WireSource, destination |-> WireDestination]
WireSyncPolicies ==
    {JNull, EmptyObj,
     JObj([automated |-> EmptyObj]),
     JObj([automated |-> JNull]),
     JObj([automated |-> JObj([prune |-> JBool(TRUE)])]),
     JObj([syncOptions |-> JList(<<Str("CreateNamespace=true")>>)])}
WireStatus == JObj([sync |-> JObj([status |-> Str("Synced")]),
                    health |-> JObj([status |-> Str("Healthy")])])
WireApps ==
    {JObj([metadata |-> JObj([name |-> Str("app")]), spec |-> JObj(WireSpec),
           status |-> WireStatus]),
     JObj([metadata |-> JObj([name |-> Str("app")])]),
     JObj([metadata |-> JObj([name |-> Str("app")]), spec |-> JNull])}
    \cup {JObj([metadata |-> JObj([name |-> Str("app")]),
                spec |-> JObj(MapPut(WireSpec, "syncPolicy", p))]) : p \in WireSyncPolicies}

Response(status, body) == [kind |-> "response", status |-> status, body |-> body]
Fault(kind, msg) == [kind |-> kind, msg |-> msg]

\* what the upstream may answer to a call: every status and body shape to a
\* direct call, a representative of each to a tool's call, and the stored
\* application to the GET of update_application
Answers(c, method) ==
    IF c = "direct"
    THEN {Response(st, b) : st \in Statuses, b \in RawBodies \cup JsonBodies}
    ELSE {Response(st, b) : st \in {200, NoContent, 404},
              b \in {Unparseable(Text("<html>")), Parsed(EmptyObj),
                     Parsed(JObj([error |-> Str("app not found")]))}}
         \cup (IF c = "update_application" /\ method = "GET"
               THEN {Response(200, Parsed(w)) : w \in WireApps}
               ELSE {})
FaultMessages(c) == IF c = "direct" THEN Messages ELSE {<<"s">>}

Overrides(a, defaults) == Cardinality({f \in DOMAIN a : a[f] # defaults[f]})
AtMost(S, defaults) == {a \in S : Overrides(a, defaults) <= MaxOverrides}

AppName == Str("app")
OptStr(lit) == {Str(""), Str(lit)}
NewStr(lit) == {JNull, Str(lit)}
OptBool == {JNull, JBool(TRUE), JBool(FALSE)}

ListArgs ==
    AtMost([project : OptStr("p"), name : OptStr("app"), repo : OptStr("repo"),
            namespace : OptStr("ns"),
            refresh : {Str(""), Str("hard"), Str("normal"), Str("invalid")}],
           [project |-> Str(""), name |-> Str(""), repo |-> Str(""),
            namespace |-> Str(""), refresh |-> Str("")])
DetailsArgs ==
    [name : {AppName}, project : OptStr("p"),
     refresh : {Str(""), Str("hard"), Str("normal"), Str("invalid")},
     namespace : OptStr("ns")]
CreateArgs ==
    AtMost([name : {AppName}, project : {Str("default")}, repo_url : {Str("repo")},
            path : {Str(".")}, dest_server : {Str("https://k8s")},
            dest_namespace : {Str("prod")}, revision : {Str("HEAD"), Str("v1")},
            automated_sync : BOOLEAN, prune : BOOLEAN, self_heal : BOOLEAN,
            namespace : OptStr("ns"), validate : BOOLEAN, upsert : BOOLEAN],
           [name |-> AppName, project |-> Str("default"), repo_url |-> Str("repo"),
            path |-> Str("."), dest_server |-> Str("https://k8s"),
            dest_namespace |-> Str("prod"), revision |-> Str("HEAD"),
            automated_sync |-> FALSE, prune |-> FALSE, self_heal |-> FALSE,
            namespace |-> Str(""), validate |-> TRUE, upsert |-> FALSE])
UpdateArgs ==
    AtMost([name : {AppName}, project : {JNull, Str(""), Str("p2")},
            repo_url : NewStr("repo2"), path : NewStr("apps"),
            dest_server : NewStr("https://k8s2"), dest_namespace : NewStr("stage"),
            revision : NewStr("v2"), automated_sync : OptBool, prune : OptBool,
            self_heal : OptBool, validate : BOOLEAN],
           [name |-> AppName, project |-> JNull, repo_url |-> JNull, path |-> JNull,
            dest_server |-> JNull, dest_namespace |-> JNull, revision |-> JNull,
            automated_sync |-> JNull, prune |-> JNull, self_heal |-> JNull,
            validate |-> TRUE])
DeleteArgs ==
    [name : {AppName}, cascade : BOOLEAN,
     propagation_policy : {Str(""), Str("foreground"), Str("invalid")},
     namespace : OptStr("ns")]
SyncArgs ==
    AtMost([name : {AppName}, revision : OptStr("v1"), prune : BOOLEAN, dry_run : BOOLEAN,
            strategy : {Str(""), Str("hook"), Str("apply"), Str("invalid")},
            resources : {JNull, JList(<<JObj([kind |-> Str("Deployment")])>>)},
            namespace : OptStr("ns")],
           [name |-> AppName, revision |-> Str(""), prune |-> FALSE, dry_run |-> FALSE,
            strategy |-> Str(""), resources |-> JNull, namespace |-> Str("")])
PlainTools == {"get_user_info", "get_settings", "get_plugins", "get_version"}
Tools == PlainTools \cup {"list_applications", "get_application_details",
                          "create_application", "update_application",
                          "delete_application", "sync_application"}

\* the update_application calls that may run at the same time
Updaters == {"u1", "u2"}
IdleUpdater == [pc |-> "idle"]

NoArgs == [none |-> TRUE]
NoRequest == [none |-> TRUE]
NoOutcome == [kind |-> "none"]
NoResult == [kind |-> "none"]

----------------------------------------------------------------------------
(* The state machine *)

Init ==
    /\ DEFAULT_TOKEN \in OptionalTokens
    /\ DEFAULT_API_URL = ARGOCD_API_URL_DEFAULT
    /\ VERIFY_SSL \in BOOLEAN
    /\ params_default = EmptyObj
    /\ data_default = EmptyObj
    /\ caller = "none"
    /\ phase = "idle"
    /\ args = NoArgs
    /\ req = NoRequest
    /\ calls = 0
    /\ sent = <<>>
    /\ outcome = NoOutcome
    /\ result = NoResult
    /\ toolResult = NoToolResult
    /\ fetched = NoResult
    /\ mapOp = "none"
    /\ mapIn = JNull
    /\ mapOut = JNull
    /\ store = JNull
    /\ updaters = [u \in Updaters |-> IdleUpdater]
    /\ external = 0

\* the invocation stands at the return of make_api_request(r), which gave ret
\* without an outbound call; the tool has returned tr
Returns(r, ret, tr, log) ==
    /\ req' = r
    /\ phase' = "done"
    /\ calls' = 0
    /\ sent' = log
    /\ result' = ret
    /\ toolResult' = tr

\* the invocation stands at the await of make_api_request(r), its call issued
Awaits(r, call, log) ==
    /\ req' = r
    /\ phase' = "await"
    /\ calls' = 1
    /\ sent' = Append(log, call)
    /\ result' = NoResult
    /\ toolResult' = NoToolResult

\* make_api_request(r) runs to its return or to its await, on behalf of
\* caller c with arguments a; `log` is the transport's record so far, `got`
\* what an earlier request of the same tool call returned. A tool that goes
\* on after an immediate return makes its next, last request in the same step.
Enter(c, a, r, log, got) ==
    LET b == Begin(r) IN
    /\ fetched' = IF c = "update_application" /\ r.method = "GET"
                  THEN (IF b.immediate THEN b.ret ELSE NoResult)
                  ELSE got
    /\ caller' = c
    /\ args' = a
    /\ outcome' = NoOutcome
    /\ IF ~b.immediate THEN Awaits(r, b.call, log)
       ELSE LET k == AfterRequest(c, a, r.method, b.ret) IN
            IF k.done THEN Returns(r, b.ret, k.toolResult, log)
            ELSE IF Begin(k.next).immediate
            THEN Returns(k.next, Begin(k.next).ret,
                         WrapResult(c, a, Begin(k.next).ret), log)
            ELSE Awaits(k.next, Begin(k.next).call, log)
    /\ UNCHANGED <<defaultVars, mapVars, raceVars>>

\* a caller (tool or direct) starts when no invocation is in progress
Free == phase = "idle"

\* the invocation's result has been handed to its caller: nothing of it is kept
Complete ==
    /\ phase = "done"
    /\ phase' = "idle"
    /\ caller' = "none"
    /\ args' = NoArgs
    /\ req' = NoRequest
    /\ calls' = 0
    /\ sent' = <<>>
    /\ outcome' = NoOutcome
    /\ result' = NoResult
    /\ toolResult' = NoToolResult
    /\ fetched' = NoResult
    /\ UNCHANGED <<defaultVars, mapVars, raceVars>>

CallExecutor(method, token, timeout) ==
    /\ Free
    /\ Enter("direct", NoArgs,
             [path |-> Text("applications"), method |-> method, token |-> token,
              api_url |-> JNull, params |-> params_default, data |-> data_default,
              timeout |-> timeout, verify_ssl |-> JNull],
             <<>>, NoResult)

list_applications(a) ==
    Free /\ Enter("list_applications", a, list_applications_request(a), <<>>, NoResult)
get_application_details(a) ==
    Free /\ Enter("get_application_details", a, get_application_details_request(a),
                  <<>>, NoResult)
create_application(a) ==
    Free /\ Enter("create_application", a, create_application_request(a), <<>>, NoResult)
update_application(a) ==
    Free /\ Enter("update_application", a, update_application_get(a), <<>>, NoResult)
delete_application(a) ==
    Free /\ Enter("delete_application", a, delete_application_request(a), <<>>, NoResult)
sync_application(a) ==
    Free /\ Enter("sync_application", a, sync_application_request(a), <<>>, NoResult)
plain_tool(tool) == Free /\ Enter(tool, NoArgs, plain_request(tool), <<>>, NoResult)

\* the awaited call completes with outcome o: make_api_request returns, and
\* the tool either returns (or raises) or issues its next request
Deliver(o) ==
    LET r == Finish(req, o)
        k == AfterRequest(caller, args, req.method, r)
        got == IF caller = "update_application" /\ req.method = "GET" THEN r ELSE fetched
    IN IF k.done
       THEN /\ phase' = "done"
            /\ outcome' = o
            /\ result' = r
            /\ toolResult' = k.toolResult
            /\ calls' = calls + Len(Retries(req, o))
            /\ sent' = sent \o Retries(req, o)
            /\ fetched' = got
            /\ UNCHANGED <<defaultVars, mapVars, raceVars, caller, args, req>>
       ELSE Enter(caller, args, k.next, sent \o Retries(req, o), got)

Respond ==
    /\ phase = "await"
    /\ \E o \in Answers(caller, req.method) : Deliver(o)

Timeout ==
    /\ phase = "await"
    /\ Deliver(Fault("TimeoutException", <<>>))

RequestError ==
    /\ phase = "await"
    /\ \E m \in FaultMessages(caller) : Deliver(Fault("RequestError", m))

UnexpectedError ==
    /\ phase = "await"
    /\ \E m \in FaultMessages(caller) : Deliver(Fault("Exception", m))

Next ==
    \/ Free /\ \E m \in Methods, tk \in OptionalTokens, to \in {DefaultTimeout} :
                  CallExecutor(m, tk, to)
    \/ Free /\ \E a \in ListArgs : list_applications(a)
    \/ Free /\ \E a \in DetailsArgs : get_application_details(a)
    \/ Free /\ \E a \in CreateArgs : create_application(a)
    \/ Free /\ \E a \in UpdateArgs : update_application(a)
    \/ Free /\ \E a \in DeleteArgs : delete_application(a)
    \/ Free /\ \E a \in SyncArgs : sync_application(a)
    \/ Free /\ \E tool \in PlainTools : plain_tool(tool)
    \/ Respond
    \/ Timeout
    \/ RequestError
    \/ UnexpectedError
    \/ Complete

Spec == Init /\ [][Next]_vars

----------------------------------------------------------------------------
(* The Domain Mapper on its own: the conversions applied to bounded inputs *)

OpaqueHelm == JObj([valueFiles |-> JList(<<Str("values.yaml")>>)])
OpaqueKustomize == JObj([namePrefix |-> Str("dev-")])
OpaqueDirectory == JObj([recurse |-> JBool(TRUE)])
OpaqueRetry == JObj([limit |-> JInt(2)])

Sources ==
    {ApplicationSource(Str("repo"), Str("."), rev, h, k, d) :
        rev \in {Str("HEAD"), Str("v1")}, h \in {JNull, EmptyObj, OpaqueHelm},
        k \in {JNull, OpaqueKustomize}, d \in {JNull, OpaqueDirectory}}
Destinations ==
    {ApplicationDestination(Str("https://k8s"), Str("prod"), n) :
        n \in {JNull, Str(""), Str("in-cluster")}}
SyncOptionLists == {JList(l) : l \in SeqsUpTo({Str("CreateNamespace=true")}, MaxSyncOptions)}
SyncPolicies ==
    {JNull} \cup
    {ApplicationSyncPolicy(JBool(au), JBool(pr), JBool(sh), JBool(ae), so, re) :
        au \in BOOLEAN, pr \in BOOLEAN, sh \in BOOLEAN, ae \in BOOLEAN,
        so \in SyncOptionLists, re \in {JNull, OpaqueRetry}}
AppStatuses ==
    {JNull, ApplicationStatus(Str("Synced"), Str("Healthy"), JList(<<>>), JList(<<>>), JNull)}
Projects == {Str(""), Str("default")}
Namespaces == {Str("argocd"), Str("ns")}
WireInputs == WireApps \cup {EmptyObj, JNull, JList(<<>>), JObj([status |-> WireStatus])}

MapperInit ==
    /\ DEFAULT_TOKEN = JNull
    /\ DEFAULT_API_URL = ARGOCD_API_URL_DEFAULT
    /\ VERIFY_SSL = TRUE
    /\ params_default = EmptyObj
    /\ data_default = EmptyObj
    /\ caller = "none"
    /\ phase = "idle"
    /\ args = NoArgs
    /\ req = NoRequest
    /\ calls = 0
    /\ sent = <<>>
    /\ outcome = NoOutcome
    /\ result = NoResult
    /\ toolResult = NoToolResult
    /\ fetched = NoResult
    /\ mapOp = "none"
    /\ mapIn = JNull
    /\ mapOut = JNull
    /\ store = JNull
    /\ updaters = [u \in Updaters |-> IdleUpdater]
    /\ external = 0

ToWire(app) ==
    /\ mapOp = "none"
    /\ mapOp' = "toWire"
    /\ mapIn' = app
    /\ mapOut' = application_to_api_format(app)
    /\ UNCHANGED <<defaultVars, execVars, raceVars>>

FromWire(data) ==
    /\ mapOp = "none"
    /\ mapOp' = "fromWire"
    /\ mapIn' = data
    /\ mapOut' = api_format_to_application(data)
    /\ UNCHANGED <<defaultVars, execVars, raceVars>>

RoundTrip(app) ==
    /\ mapOp = "none"
    /\ mapOp' = "roundTrip"
    /\ mapIn' = app
    /\ mapOut' = api_format_to_application(application_to_api_format(app))
    /\ UNCHANGED <<defaultVars, execVars, raceVars>>

Discard ==
    /\ mapOp # "none"
    /\ mapOp' = "none"
    /\ mapIn' = JNull
    /\ mapOut' = JNull
    /\ UNCHANGED <<defaultVars, execVars, raceVars>>

MapperNext ==
    \/ mapOp = "none" /\
          \E pj \in Projects, s \in Sources, d \in Destinations, sp \in SyncPolicies,
             ns \in Namespaces, st \in AppStatuses :
             ToWire(Application(AppName, pj, s, d, sp, ns, st))
    \/ mapOp = "none" /\ \E data \in WireInputs : FromWire(data)
    \/ mapOp = "none" /\
          \E pj \in Projects, s \in Sources, d \in Destinations, sp \in SyncPolicies,
             ns \in Namespaces, st \in AppStatuses :
             RoundTrip(Application(AppName, pj, s, d, sp, ns, st))
    \/ Discard

MapperSpec == MapperInit /\ [][MapperNext]_vars

----------------------------------------------------------------------------
(* update_application against an upstream that other clients write to: the *)
(* GET and the PUT of one call are two requests, and anything may happen   *)
(* between them                                                            *)

\* the overrides a racing call supplies: at most one of them
Overridable == {"project", "repo_url", "path", "dest_server", "dest_namespace",
                "revision", "automated_sync", "prune", "self_heal"}
RaceArgs ==
    {a \in UpdateArgs : a.validate /\ Cardinality({f \in Overridable : ~IsNone(a[f])}) <= 1}

\* what another client may turn the stored Application into
ExternalChanges(app) ==
    {Put(app, "metadata", JObj([name |-> Str("app"), labels |-> JObj([team |-> Str("ext")])]))}
    \cup (IF HasSpec(app) /\ Has(app.o["spec"], "source") /\ IsObj(app.o["spec"].o["source"])
          THEN {Put(app, "spec",
                    Put(app.o["spec"], "source",
                        Put(app.o["spec"].o["source"], "targetRevision", Str("ext"))))}
          ELSE {})

\* a variant in which the overrides are applied to what the upstream holds
\* when the PUT arrives
PutBody_Refetched(call, a, current) ==
    LET body == update_application_patch(current, a)
    IN IF body = Raised THEN call.json ELSE body

\* the body of the PUT: app_data as patched after the GET (data=app_data),
\* whatever the upstream holds by now
PutBody(call, a, current) == call.json

RaceInit ==
    /\ DEFAULT_TOKEN = JStr(<<"s">>)
    /\ DEFAULT_API_URL = ARGOCD_API_URL_DEFAULT
    /\ VERIFY_SSL = TRUE
    /\ params_default = EmptyObj
    /\ data_default = EmptyObj
    /\ caller = "none"
    /\ phase = "idle"
    /\ args = NoArgs
    /\ req = NoRequest
    /\ calls = 0
    /\ sent = <<>>
    /\ outcome = NoOutcome
    /\ result = NoResult
    /\ toolResult = NoToolResult
    /\ fetched = NoResult
    /\ mapOp = "none"
    /\ mapIn = JNull
    /\ mapOut = JNull
    /\ store \in WireApps
    /\ updaters = [u \in Updaters |-> IdleUpdater]
    /\ external = 0

\* updater u is called with arguments a and issues its GET
RaceInvoke(u, a) ==
    LET b == Begin(update_application_get(a)) IN
    /\ updaters[u].pc = "idle"
    /\ updaters' = [updaters EXCEPT ![u] =
           IF b.immediate
           THEN [pc |-> "returned", args |-> a,
                 toolResult |-> AfterRequest("update_application", a, "GET", b.ret).toolResult]
           ELSE [pc |-> "get", args |-> a, call |-> b.call]]
    /\ UNCHANGED <<defaultVars, execVars, mapVars, store, external>>

\* the upstream answers u's GET with what it holds; u patches the answer and
\* issues its PUT, or returns without one
RaceGet(u) ==
    LET x == updaters[u]
        r == Finish(update_application_get(x.args), Response(200, Parsed(store)))
        k == AfterRequest("update_application", x.args, "GET", r)
    IN /\ x.pc = "get"
       /\ updaters' = [updaters EXCEPT ![u] =
              IF k.done
              THEN [pc |-> "returned", args |-> x.args, toolResult |-> k.toolResult]
              ELSE IF Begin(k.next).immediate
              THEN [pc |-> "returned", args |-> x.args,
                    toolResult |-> WrapResult("update_application", x.args,
                                              Begin(k.next).ret)]
              ELSE [pc |-> "put", args |-> x.args, snapshot |-> store,
                    pending |-> k.next, call |-> Begin(k.next).call]]
       /\ UNCHANGED <<defaultVars, execVars, mapVars, store, external>>

\* u's PUT arrives: the upstream replaces what it holds by the body and
\* answers with it; u returns
RacePut(u) ==
    LET x == updaters[u]
        body == PutBody(x.call, x.args, store)
        r == Finish(x.pending, Response(200, Parsed(body)))
    IN /\ x.pc = "put"
       /\ store' = body
       /\ updaters' = [updaters EXCEPT ![u] =
              [pc |-> "done", args |-> x.args, snapshot |-> x.snapshot,
               before |-> store, written |-> body,
               toolResult |-> WrapResult("update_application", x.args, r)]]
       /\ UNCHANGED <<defaultVars, execVars, mapVars, external>>

\* another client changes the stored Application
ExternalWrite ==
    /\ external < MaxExternalWrites
    /\ \E w \in ExternalChanges(store) : store' = w
    /\ external' = external + 1
    /\ UNCHANGED <<defaultVars, execVars, mapVars, updaters>>

RaceNext ==
    \/ \E u \in Updaters, a \in RaceArgs : RaceInvoke(u, a)
    \/ \E u \in Updaters : RaceGet(u)
    \/ \E u \in Updaters : RacePut(u)
    \/ ExternalWrite

RaceSpec == RaceInit /\ [][RaceNext]_vars

----------------------------------------------------------------------------
(* Properties *)

\* whether text tok occurs in a string anywhere inside value j
RECURSIVE Leaks(_, _)
Leaks(j, tok) ==
    CASE j.t = "str" -> Contains(j.s, tok)
      [] j.t = "list" -> \E i \in 1..Len(j.l) : Leaks(j.l[i], tok)
      [] j.t = "obj" -> \E k \in DOMAIN j.o : Leaks(j.o[k], tok)
      [] OTHER -> FALSE

StartsWith(s, prefix) == Len(s) >= Len(prefix) /\ SubSeq(s, 1, Len(prefix)) = prefix

Returned == phase = "done" /\ req # NoRequest
TokenAvailable == req # NoRequest /\ (Truthy(req.token) \/ Truthy(DEFAULT_TOKEN))
Answered == phase = "done" /\ outcome.kind = "response"

\* C1: whatever the awaited call produced (timeout, RequestError, any other
\* exception, a response), the payload make_api_request returns never contains
\* the token it used.
C1_TokenNeverInPayload ==
    (Returned /\ TokenAvailable /\ outcome # NoOutcome)
        => ~Leaks(result.payload, ResolveToken(req.token).s)

\* C2: every tool returns a mapping, never raises, and the mapping has an
\* `error` key whenever make_api_request reported failure.
C2_ToolsAlwaysReturnMapping ==
    (phase = "done" /\ caller \in Tools)
        => /\ toolResult.kind = "return"
           /\ IsObj(toolResult.value)
           /\ (~result.ok => "error" \in DOMAIN toolResult.value.o)

\* C3: with no explicit token (None or empty) and no default token, the call
\* returns (False, {"error": "Token is required..."}) and nothing is sent,
\* whatever the path, method, params and data.
C3_NoTokenNoCall ==
    (req # NoRequest /\ ~Truthy(req.token) /\ ~Truthy(DEFAULT_TOKEN))
        => /\ phase = "done"
           /\ result.ok = FALSE
           /\ result.payload = JObj([error |-> JStr(<<
                  "Token is required. Please set the ARGOCD_TOKEN environment variable.">>)])
           /\ calls = 0
           /\ sent = <<>>

C3_Witness ==
    /\ phase = "done"
    /\ caller = "direct"
    /\ req.token = JStr(<<>>)
    /\ DEFAULT_TOKEN = JNull
    /\ req.method = "POST"
    /\ result.ok = FALSE
    /\ sent = <<>>

\* C4, as claimed: a method outside {GET, POST, PUT, PATCH, DELETE} returns
\* (false, {"error": "unsupported method: <method>"}) with nothing sent.
C4_UnsupportedMethodAsClaimed ==
    (req # NoRequest /\ req.method \notin {"GET", "POST", "PUT", "PATCH", "DELETE"})
        => /\ phase = "done"
           /\ result.ok = FALSE
           /\ result.payload = JObj([error |-> JStr(<<"unsupported method: ", req.method>>)])
           /\ sent = <<>>

\* C4, amended: when a token is available (explicit or default), a method
\* outside {GET, POST, PUT, PATCH, DELETE} returns
\* (False, {"error": "Unsupported method: <method>"}) with nothing sent.
C4_UnsupportedMethod ==
    (TokenAvailable /\ req.method \notin {"GET", "POST", "PUT", "PATCH", "DELETE"})
        => /\ phase = "done"
           /\ result.ok = FALSE
           /\ result.payload = JObj([error |-> JStr(<<"Unsupported method: ", req.method>>)])
           /\ calls = 0
           /\ sent = <<>>

C4_Witness ==
    /\ phase = "done"
    /\ req.method = "TRACE"
    /\ Truthy(DEFAULT_TOKEN)
    /\ IsNone(req.token)
    /\ result.payload = JObj([error |-> JStr(<<"Unsupported method: ", "TRACE">>)])

\* C5: a call of make_api_request issues exactly one outbound call, or none
\* when the token or the method is rejected first; no outcome leads to a
\* further call; a suspended call can always complete (the timeout), and a
\* completed one holds an (ok, payload) pair; the process-wide defaults and
\* the shared default dictionaries are never changed.
C5_Calls ==
    req # NoRequest
        => /\ calls = (IF (~Truthy(req.token) /\ ~Truthy(DEFAULT_TOKEN))
                          \/ req.method \notin {"GET", "POST", "PUT", "PATCH", "DELETE"}
                       THEN 0 ELSE 1)
           /\ (caller = "direct" => Len(sent) = calls)
           /\ (phase = "await" => ENABLED Timeout)
           /\ (phase = "done" => result.kind = "return" /\ result.ok \in BOOLEAN)
           /\ params_default = EmptyObj
           /\ data_default = EmptyObj

C5_OneCallNoRetryNoMutation == []C5_Calls /\ [][UNCHANGED defaultVars]_vars

C5_Witness ==
    /\ phase = "done"
    /\ caller = "direct"
    /\ outcome.kind = "TimeoutException"
    /\ calls = 1
    /\ Len(sent) = 1
    /\ result.ok = FALSE

\* C6: every response whose status is not 200, 201, 202 or 204 gives ok=false
\* and an error beginning "API request failed: <status>"; a body that parses
\* is returned under `details`, with its `error` field appended to the
\* message; of a body that does not parse, the first 200 characters are
\* appended. For every JSON body shape.
C6_ErrorResponses ==
    (Answered /\ outcome.status \notin {200, 201, 202, 204})
        => LET prefix == <<"API request failed: ", ToString(outcome.status)>>
               body == outcome.body
               payload == result.payload
           IN /\ result.ok = FALSE
              /\ StartsWith(payload.o["error"].s, prefix)
              /\ body.parses =>
                    /\ Has(payload, "details")
                    /\ payload.o["details"] = body.json
                    /\ Has(body.json, "error") =>
                          payload.o["error"].s
                              = prefix \o <<" - ">> \o body.json.o["error"].s
              /\ ~body.parses =>
                    payload.o["error"].s = prefix \o <<" - ">> \o Take(body.text, 200)

\* C7: every response with status 200, 201, 202 or 204 gives ok=true: 204
\* gives exactly {"status": "success"} whatever the body; the others give the
\* parsed body, or {"status": "success", "raw_response": <text>} when the body
\* does not parse.
C7_SuccessResponses ==
    (Answered /\ outcome.status \in {200, 201, 202, 204})
        => /\ result.ok = TRUE
           /\ outcome.status = 204 =>
                 result.payload = JObj([status |-> JStr(<<"success">>)])
           /\ (outcome.status # 204 /\ outcome.body.parses) =>
                 result.payload = outcome.body.json
           /\ (outcome.status # 204 /\ ~outcome.body.parses) =>
                 result.payload = JObj([status |-> JStr(<<"success">>),
                                        raw_response |-> JStr(outcome.body.text)])

C7_Witness ==
    /\ Answered
    /\ caller = "direct"
    /\ outcome.status = 202
    /\ ~outcome.body.parses
    /\ Len(outcome.body.text) > 200
    /\ result.ok = TRUE
    /\ Has(result.payload, "raw_response")

\* C8: fromWire of a wire object whose spec.syncPolicy.automated is {} gives a
\* SyncPolicy with automated=true, prune=false, self_heal=false,
\* allow_empty=false.
C8_EmptyAutomatedIsAutomated ==
    (/\ mapOp = "fromWire"
     /\ Has(mapIn, "spec")
     /\ Has(mapIn.o["spec"], "syncPolicy")
     /\ Has(mapIn.o["spec"].o["syncPolicy"], "automated")
     /\ mapIn.o["spec"].o["syncPolicy"].o["automated"] = EmptyObj)
        => /\ mapOut # Raised
           /\ mapOut.sync_policy # JNull
           /\ mapOut.sync_policy.automated = JBool(TRUE)
           /\ mapOut.sync_policy.prune = JBool(FALSE)
           /\ mapOut.sync_policy.self_heal = JBool(FALSE)
           /\ mapOut.sync_policy.allow_empty = JBool(FALSE)

\* C9: fromWire(toWire(A)) reproduces name, project, Source and Destination of
\* every Application A, whatever payloads are present and whatever the
\* destination name (None, empty or not).
C9_RoundTrip ==
    mapOp = "roundTrip"
        => /\ mapOut # Raised
           /\ mapOut.name = mapIn.name
           /\ mapOut.project = mapIn.project
           /\ mapOut.source = mapIn.source
           /\ mapOut.destination = mapIn.destination

\* C10: the output of toWire has metadata.name, metadata.namespace,
\* spec.project, spec.source and spec.destination, and no `status` key at
\* any level toWire builds, whether or not the Application has a Status.
C10_NoStatusOnWire ==
    mapOp = "toWire"
        => LET built == {mapOut, mapOut.o["metadata"], mapOut.o["spec"],
                         mapOut.o["spec"].o["source"], mapOut.o["spec"].o["destination"]}
                        \cup (IF Has(mapOut.o["spec"], "syncPolicy")
                              THEN {mapOut.o["spec"].o["syncPolicy"]} ELSE {})
                        \cup (IF Has(mapOut.o["spec"], "syncPolicy")
                                 /\ Has(mapOut.o["spec"].o["syncPolicy"], "automated")
                              THEN {mapOut.o["spec"].o["syncPolicy"].o["automated"]}
                              ELSE {})
           IN /\ {"metadata", "spec"} \subseteq DOMAIN mapOut.o
              /\ {"name", "namespace"} \subseteq DOMAIN mapOut.o["metadata"].o
              /\ {"project", "source", "destination"} \subseteq DOMAIN mapOut.o["spec"].o
              /\ \A level \in built : IsObj(level) /\ "status" \notin DOMAIN level.o

C10_Witness ==
    /\ mapOp = "toWire"
    /\ ~IsNone(mapIn.status)
    /\ ~IsNone(mapIn.sync_policy)
    /\ mapIn.sync_policy.automated = JBool(TRUE)
    /\ Has(mapOut.o["spec"], "syncPolicy")

\* C11: in every wire object toWire produces, prune/selfHeal/allowEmpty appear
\* only inside spec.syncPolicy.automated; that block is present exactly when
\* the Application has a SyncPolicy with automated=true, and then carries the
\* three sub-flags; with automated=false it is omitted, whatever the sub-flags.
C11_AutomatedBlock ==
    mapOp = "toWire"
        => LET spec == mapOut.o["spec"]
               hasPolicy == Has(spec, "syncPolicy")
               hasAutomated == hasPolicy /\ Has(spec.o["syncPolicy"], "automated")
               outside == {mapOut, mapOut.o["metadata"], spec, spec.o["source"],
                           spec.o["destination"]}
                          \cup (IF hasPolicy THEN {spec.o["syncPolicy"]} ELSE {})
               subFlags == {"prune", "selfHeal", "allowEmpty"}
           IN /\ hasPolicy <=> ~IsNone(mapIn.sync_policy)
              /\ hasAutomated <=> (/\ ~IsNone(mapIn.sync_policy)
                                   /\ mapIn.sync_policy.automated = JBool(TRUE))
              /\ \A level \in outside : DOMAIN level.o \cap subFlags = {}
              /\ hasAutomated =>
                    spec.o["syncPolicy"].o["automated"]
                        = JObj([prune |-> mapIn.sync_policy.prune,
                                selfHeal |-> mapIn.sync_policy.self_heal,
                                allowEmpty |-> mapIn.sync_policy.allow_empty])

C11_Witness ==
    /\ mapOp = "toWire"
    /\ ~IsNone(mapIn.sync_policy)
    /\ mapIn.sync_policy.automated = JBool(FALSE)
    /\ mapIn.sync_policy.prune = JBool(TRUE)
    /\ mapIn.sync_policy.self_heal = JBool(TRUE)
    /\ Has(mapOut.o["spec"], "syncPolicy")
    /\ ~Has(mapOut.o["spec"].o["syncPolicy"], "automated")

\* C12: the request list_applications and get_application_details make, and
\* the outbound call issued for it, carry a `refresh` query parameter exactly
\* when the refresh argument is "hard" or "normal", and then with that value;
\* any other value (such as "invalid" or "") gives no `refresh` parameter.
C12_RefreshParam ==
    caller \in {"list_applications", "get_application_details"}
        => LET carried == {req.params} \cup {sent[i].params : i \in 1..Len(sent)}
           IN \A params \in carried :
                 /\ IsObj(params)
                 /\ "refresh" \in DOMAIN params.o
                        <=> args.refresh \in {JStr(<<"hard">>), JStr(<<"normal">>)}
                 /\ "refresh" \in DOMAIN params.o => params.o["refresh"] = args.refresh

C12_Witness ==
    /\ caller = "list_applications"
    /\ args.refresh = JStr(<<"invalid">>)
    /\ phase = "await"
    /\ Len(sent) = 1
    /\ sent[1].method = "GET"
    /\ "refresh" \notin DOMAIN sent[1].params.o

\* the value under key k of j, or that j has no such key
Absent == [t |-> "absent"]
Field(j, k) == IF Has(j, k) THEN j.o[k] ELSE Absent
SpecField(app, k) == Field(Field(app, "spec"), k)

\* the fields of spec an update with arguments a names
NamesProject(a) == Truthy(a.project)
NamesSource(a) == Truthy(a.repo_url) \/ Truthy(a.path) \/ Truthy(a.revision)
NamesDestination(a) == Truthy(a.dest_server) \/ Truthy(a.dest_namespace)
NamesSyncPolicy(a) == ~IsNone(a.automated_sync) \/ ~IsNone(a.prune) \/ ~IsNone(a.self_heal)

\* C13: update_application is not atomic. The body its PUT writes is derived
\* from the snapshot its GET returned: every field the update does not name is
\* written with the snapshot's value, whatever the upstream holds when the PUT
\* arrives; so a change made between the GET and the PUT, by another client or
\* by a concurrent update_application, to a field not named is overwritten.
C13_PutFromSnapshot ==
    \A u \in Updaters :
        updaters[u].pc = "done"
            => LET x == updaters[u]
                   unnamed == (IF NamesProject(x.args) THEN {} ELSE {"project"})
                              \cup (IF NamesSource(x.args) THEN {} ELSE {"source"})
                              \cup (IF NamesDestination(x.args) THEN {} ELSE {"destination"})
                              \cup (IF NamesSyncPolicy(x.args) THEN {} ELSE {"syncPolicy"})
               IN /\ \A k \in unnamed : SpecField(x.written, k) = SpecField(x.snapshot, k)
                  /\ \A k \in {"metadata", "status"} :
                        Field(x.written, k) = Field(x.snapshot, k)
                  /\ x.toolResult = Return(x.written)

\* a lost update: u2's change of project and another client's change of the
\* revision both arrived between u1's GET and u1's PUT; u1 named neither
\* field, both calls returned success, and the upstream holds neither change
C13_Witness ==
    /\ updaters["u1"].pc = "done"
    /\ updaters["u2"].pc = "done"
    /\ external = 1
    /\ updaters["u2"].args.project = JStr(<<"p2">>)
    /\ ~NamesProject(updaters["u1"].args)
    /\ ~NamesSource(updaters["u1"].args)
    /\ SpecField(updaters["u1"].before, "project") = JStr(<<"p2">>)
    /\ Field(SpecField(updaters["u1"].before, "source"), "targetRevision") = JStr(<<"ext">>)
    /\ store = updaters["u1"].written
    /\ SpecField(store, "project") = JStr(<<"default">>)
    /\ Field(SpecField(store, "source"), "targetRevision") = JStr(<<"HEAD">>)
    /\ updaters["u1"].toolResult.kind = "return"
    /\ updaters["u2"].toolResult.kind = "return"
    /\ ~Has(updaters["u1"].toolResult.value, "error")
    /\ ~Has(updaters["u2"].toolResult.value, "error")

\* C14: update_application issues its PUT only after its GET of the same
\* application returned success. When the GET fails (no token, non-2xx,
\* timeout, transport fault) the tool returns an `error` mapping and no PUT is
\* sent; an invocation whose PUT succeeded has issued exactly GET then PUT.
C14_PutOnlyAfterGet ==
    caller = "update_application"
        => LET methods == [i \in 1..Len(sent) |-> sent[i].method]
               url == <<DEFAULT_API_URL, "/", "applications/">> \o args.name.s
           IN /\ methods \in {<<>>, <<"GET">>, <<"GET", "PUT">>}
              /\ \A i \in 1..Len(sent) : sent[i].url = url
              /\ (req.method = "PUT" \/ Len(sent) = 2)
                    => fetched.kind = "return" /\ fetched.ok = TRUE
              /\ (fetched.kind = "return" /\ fetched.ok = FALSE)
                    => /\ phase = "done"
                       /\ req.method = "GET"
                       /\ Len(sent) <= 1
                       /\ toolResult.kind = "return"
                       /\ Has(toolResult.value, "error")
              /\ (phase = "done" /\ req.method = "PUT" /\ result.ok)
                    => /\ methods = <<"GET", "PUT">>
                       /\ toolResult = Return(result.payload)

C14_Witness ==
    /\ caller = "update_application"
    /\ phase = "done"
    /\ outcome.kind = "response"
    /\ outcome.status = 404
    /\ fetched.kind = "return"
    /\ fetched.ok = FALSE
    /\ Len(sent) = 1
    /\ sent[1].method = "GET"
    /\ Has(toolResult.value, "error")

\* the keys of j, none when j is not a mapping
Keys(j) == IF IsObj(j) THEN DOMAIN j.o ELSE {}

\* C15: the body of update_application's PUT is the wire object its GET
\* returned with only the supplied overrides applied. Every key outside spec
\* (metadata, status) and every key of spec other than project, source,
\* destination and syncPolicy passes through; project, and each of
\* source.repoURL/path/targetRevision and destination.server/namespace, has
\* the argument's value when the argument is non-empty and the GET's value
\* (or absence) otherwise; with no argument supplied the body is the GET's
\* object. syncPolicy is the GET's unless automated_sync, prune or self_heal
\* is not None; then its keys other than `automated` pass through,
\* automated_sync=True with no block present starts an empty block,
\* automated_sync=False leaves no block, and prune/selfHeal are written only
\* into the block that stays in the body.
C15_PutBodyIsPatchedGet ==
    (caller = "update_application" /\ req.method = "PUT")
        => LET g == fetched.payload
               body == req.data
               a == args
               gs == Field(g, "spec")
               bs == Field(body, "spec")
               Other(x, y, named) == \A k \in (Keys(x) \cup Keys(y)) \ named :
                                         Field(y, k) = Field(x, k)
               Written(x, y, k, v, given) == Field(y, k) = (IF given THEN v ELSE Field(x, k))
               s0 == Field(gs, "source")
               s1 == Field(bs, "source")
               d0 == Field(gs, "destination")
               d1 == Field(bs, "destination")
               p0 == Field(gs, "syncPolicy")
               p1 == Field(bs, "syncPolicy")
               au0 == Field(p0, "automated")
               au1 == Field(p1, "automated")
               block0 == au0 \notin {Absent, JNull}
               removed == a.automated_sync = JBool(FALSE) /\ block0
               base == IF a.automated_sync = JBool(TRUE) /\ ~block0 THEN EmptyObj ELSE au0
           IN /\ \A i \in 1..Len(sent) : sent[i].method = "PUT" => sent[i].json = body
              /\ IsObj(body)
              /\ Other(g, body, {"spec"})
              /\ (~NamesProject(a) /\ ~NamesSource(a) /\ ~NamesDestination(a)
                     /\ ~NamesSyncPolicy(a)) => body = g
              /\ ~IsObj(gs) => body = g
              /\ IsObj(gs) =>
                    /\ IsObj(bs)
                    /\ Other(gs, bs, {"project", "source", "destination", "syncPolicy"})
                    /\ Written(gs, bs, "project", a.project, Truthy(a.project))
                    /\ IF NamesSource(a)
                       THEN /\ IsObj(s1)
                            /\ Other(s0, s1, {"repoURL", "path", "targetRevision"})
                            /\ Written(s0, s1, "repoURL", a.repo_url, Truthy(a.repo_url))
                            /\ Written(s0, s1, "path", a.path, Truthy(a.path))
                            /\ Written(s0, s1, "targetRevision", a.revision,
                                       Truthy(a.revision))
                       ELSE s1 = s0
                    /\ IF NamesDestination(a)
                       THEN /\ IsObj(d1)
                            /\ Other(d0, d1, {"server", "namespace"})
                            /\ Written(d0, d1, "server", a.dest_server, Truthy(a.dest_server))
                            /\ Written(d0, d1, "namespace", a.dest_namespace,
                                       Truthy(a.dest_namespace))
                       ELSE d1 = d0
                    /\ IF NamesSyncPolicy(a)
                       THEN /\ IsObj(p1)
                            /\ Other(p0, p1, {"automated"})
                            /\ a.automated_sync = JBool(TRUE) => IsObj(au1)
                            /\ a.automated_sync = JBool(FALSE) => au1 \in {Absent, JNull}
                            /\ IF removed THEN au1 = Absent
                               ELSE IF IsObj(base)
                               THEN /\ IsObj(au1)
                                    /\ Other(base, au1, {"prune", "selfHeal"})
                                    /\ Written(base, au1, "prune", a.prune, ~IsNone(a.prune))
                                    /\ Written(base, au1, "selfHeal", a.self_heal,
                                               ~IsNone(a.self_heal))
                               ELSE au1 = au0
                       ELSE p1 = p0

C15_Witness ==
    /\ caller = "update_application"
    /\ phase = "await"
    /\ req.method = "PUT"
    /\ Len(sent) = 2
    /\ args.automated_sync = JBool(FALSE)
    /\ args.prune = JBool(FALSE)
    /\ SpecField(fetched.payload, "syncPolicy")
           = JObj([automated |-> JObj([prune |-> JBool(TRUE)])])
    /\ SpecField(sent[2].json, "syncPolicy") = EmptyObj
    /\ SpecField(sent[2].json, "source") = SpecField(fetched.payload, "source")

====
